---- MODULE Spec2Model ----
(***************************************************************************)
(* Model of the MegaFilePicker component (src/mega-file-picker.tsx): the   *)
(* line parser, the extension classifier, and the component state with its *)
(* handlers (upload, single pick, batch draw, clear, reset, drag events).  *)
(* JavaScript strings are modelled as sequences of one-character strings.  *)
(***************************************************************************)
EXTENDS Integers, Sequences, FiniteSets, TLC

VARIABLES
    database,      \* useState<MegaFile[]>([])            (line 17)
    currentBatch,  \* useState<MegaFile[]>([])            (line 18)
    currentFile,   \* useState<MegaFile | null>(null)     (line 19)
    isLoading,     \* useState(false)                     (line 20)
    isDragOver,    \* useState(false)                     (line 21)
    stats,         \* useState({ folders: 0, files: 0 })  (line 22)
    pending,       \* uploads whose `await file.text()` has not settled yet
    pc,            \* "idle", or "gen" while generateBatch's loop is running
    batch,         \* generateBatch's local `batch`
    used,          \* generateBatch's local `used`
    limit,         \* generateBatch's local `limit`
    lastCall       \* <<handler, argument>> of the most recent handler call

vars == <<database, currentBatch, currentFile, isLoading, isDragOver, stats,
          pending, pc, batch, used, limit, lastCall>>

(***************************************************************************)
(* Bounds of the model.                                                    *)
(***************************************************************************)
MaxRecords == 3     \* most candidate lines in an uploaded sample text
MaxCount == 3       \* largest count passed to generateBatch
MaxPending == 1     \* most uploads in flight at once
MaxPathLen == 4     \* longest path of the enumerated candidate lines

(***************************************************************************)
(* JavaScript string primitives.                                           *)
(***************************************************************************)
\* null (a currentFile of null, a match of null)
NULL == <<>>

Min(a, b) == IF a <= b THEN a ELSE b

\* The characters String.prototype.trim strips and \s matches (those in use).
IsSpace(c) == c \in {" ", "\t", "\r"}

\* The characters the regex `.` matches: anything but a line terminator.
IsDot(c) == c \notin {"\n", "\r"}

UpperLetters == <<"A", "B", "C", "D", "E", "F", "G", "H", "I", "J", "K", "L", "M",
                  "N", "O", "P", "Q", "R", "S", "T", "U", "V", "W", "X", "Y", "Z">>

LowerLetters == <<"a", "b", "c", "d", "e", "f", "g", "h", "i", "j", "k", "l", "m",
                  "n", "o", "p", "q", "r", "s", "t", "u", "v", "w", "x", "y", "z">>

LowerChar(c) ==
    IF \E i \in 1..26 : UpperLetters[i] = c
    THEN LowerLetters[CHOOSE i \in 1..26 : UpperLetters[i] = c]
    ELSE c

\* String.prototype.toLowerCase
toLowerCase(s) == [i \in 1..Len(s) |-> LowerChar(s[i])]

\* String.prototype.includes
includes(s, sub) ==
    \E i \in 0..(Len(s) - Len(sub)) : SubSeq(s, i + 1, i + Len(sub)) = sub

\* String.prototype.split with a one-character separator
RECURSIVE split(_, _)
split(s, sep) ==
    IF \A i \in 1..Len(s) : s[i] # sep
    THEN <<s>>
    ELSE LET i == CHOOSE j \in 1..Len(s) :
                      s[j] = sep /\ \A k \in 1..(j - 1) : s[k] # sep
         IN <<SubSeq(s, 1, i - 1)>> \o split(SubSeq(s, i + 1, Len(s)), sep)

\* String.prototype.trim
RECURSIVE trim(_)
trim(s) ==
    IF s = <<>> THEN s
    ELSE IF IsSpace(s[1]) THEN trim(Tail(s))
    ELSE IF IsSpace(s[Len(s)]) THEN trim(SubSeq(s, 1, Len(s) - 1))
    ELSE s

\* Array.prototype.filter(Boolean) on an array of strings: drops the empty ones
filterBoolean(segs) == SelectSeq(segs, LAMBDA x : x # <<>>)

\* Array.prototype.join
RECURSIVE join(_, _)
join(segs, sep) ==
    IF segs = <<>> THEN <<>>
    ELSE IF Len(segs) = 1 THEN segs[1]
    ELSE segs[1] \o sep \o join(Tail(segs), sep)

(***************************************************************************)
(* The line regex /^(.+?)\s+<H:([^>]+)>$/ (line 30).                       *)
(***************************************************************************)
HandleMarker == <<"<", "H", ":">>

\* Length of the run of whitespace at the start of t.
RECURSIVE SpaceRun(_)
SpaceRun(t) == IF t # <<>> /\ IsSpace(t[1]) THEN 1 + SpaceRun(Tail(t)) ELSE 0

\* t matches \s+<H:([^>]+)>$ : "<" is no whitespace, so \s+ takes the whole run.
TailMatches(t) ==
    LET m == SpaceRun(t)
    IN /\ m >= 1
       /\ Len(t) >= m + 5
       /\ SubSeq(t, m + 1, m + 3) = HandleMarker
       /\ t[Len(t)] = ">"
       /\ \A j \in (m + 4)..(Len(t) - 1) : t[j] # ">"

\* The lengths k of a prefix that (.+?) can take so that the rest matches.
PathLengths(s) ==
    {k \in 1..Len(s) : /\ \A j \in 1..k : IsDot(s[j])
                       /\ TailMatches(SubSeq(s, k + 1, Len(s)))}

\* String.prototype.match(lineRegex): null, or <<match[0], match[1], match[2]>>.
\* The path group is non-greedy: the shortest prefix that lets the rest match.
lineRegexMatch(s) ==
    IF PathLengths(s) = {} THEN NULL
    ELSE LET k == CHOOSE x \in PathLengths(s) : \A y \in PathLengths(s) : x <= y
             t == SubSeq(s, k + 1, Len(s))
         IN <<s, SubSeq(s, 1, k), SubSeq(t, SpaceRun(t) + 4, Len(t) - 1)>>

(***************************************************************************)
(* getFileType (lines 68-79).                                              *)
(***************************************************************************)
imageExts == {<<"j","p","g">>, <<"j","p","e","g">>, <<"p","n","g">>, <<"g","i","f">>,
              <<"b","m","p">>, <<"w","e","b","p">>}

videoExts == {<<"m","p","4">>, <<"a","v","i">>, <<"m","o","v">>, <<"w","m","v">>,
              <<"f","l","v">>, <<"m","k","v">>, <<"w","e","b","m">>}

audioExts == {<<"m","p","3">>, <<"w","a","v">>, <<"f","l","a","c">>, <<"a","a","c">>,
              <<"o","g","g">>}

docExts == {<<"p","d","f">>, <<"d","o","c">>, <<"d","o","c","x">>, <<"t","x","t">>,
            <<"r","t","f">>}

getFileType(extension) ==
    IF extension \in imageExts THEN "image"
    ELSE IF extension \in videoExts THEN "video"
    ELSE IF extension \in audioExts THEN "audio"
    ELSE IF extension \in docExts THEN "document"
    ELSE "file"

(***************************************************************************)
(* parseNewStructure (lines 25-65).                                        *)
(***************************************************************************)
\* fileName.split('.').pop()?.toLowerCase() || ''   (line 49)
extensionOf(fileName) ==
    LET parts == split(fileName, ".")
    IN toLowerCase(parts[Len(parts)])

\* pathSegments.length > 1 ? '/' + pathSegments.slice(0, -1).join('/') : '/'  (line 48)
folderPathOf(pathSegments) ==
    IF Len(pathSegments) > 1
    THEN <<"/">> \o join(SubSeq(pathSegments, 1, Len(pathSegments) - 1), <<"/">>)
    ELSE <<"/">>

\* The body of the for loop for one line: `files` with the line's record pushed,
\* or `files` as it is when the line is skipped.
parseLine(files, line) ==
    IF ~includes(line, HandleMarker) THEN files
    ELSE LET match == lineRegexMatch(trim(line))
         IN IF match = NULL \/ Len(match) # 3 THEN files
            ELSE LET fullPath == trim(match[2])
                     handle == trim(match[3])
                     pathSegments == filterBoolean(split(fullPath, "/"))
                 IN IF Len(pathSegments) = 0 THEN files
                    ELSE LET fileName == pathSegments[Len(pathSegments)]
                             extension == extensionOf(fileName)
                         IN Append(files,
                                [id |-> Len(files),
                                 fileName |-> fileName,
                                 fullPath |-> fullPath,
                                 folderPath |-> folderPathOf(pathSegments),
                                 extension |-> extension,
                                 type |-> getFileType(extension),
                                 handle |-> handle])

RECURSIVE parseLines(_, _)
parseLines(files, lines) ==
    IF lines = <<>> THEN files
    ELSE parseLines(parseLine(files, lines[1]), Tail(lines))

parseNewStructure(text) == parseLines(<<>>, split(text, "\n"))

(***************************************************************************)
(* The files a user can hand to the component.  A file is its text and     *)
(* whether `file.text()` resolves; `undefined` is NULL.                    *)
(***************************************************************************)
JunkLine == <<"m", "e", "g", "a", ">", " ", "l", "s">>

SampleLines ==
    << <<"/", "d", "/", "r", ".", "P", "D", "F", " ", "<", "H", ":", "h", "1", ">">>,
       <<"p", "/", "i", ".", "p", "n", "g", " ", " ", "<", "H", ":", "h", "2", ">">>,
       <<"R", "E", "A", "D", "M", "E", " ", "<", "H", ":", "h", "3", ">">> >>

\* A pasted listing: a prompt line, then n candidate lines.
RECURSIVE SampleText(_)
SampleText(n) ==
    IF n = 0 THEN JunkLine
    ELSE SampleText(n - 1) \o <<"\n">> \o SampleLines[((n - 1) % Len(SampleLines)) + 1]

UnreadableFile == [readable |-> FALSE, text |-> <<>>]

SampleFiles ==
    {[readable |-> TRUE, text |-> SampleText(n)] : n \in 0..MaxRecords}
        \cup {UnreadableFile}

\* FileList values: empty, or holding one file.
FileLists(files) == {<<>>} \cup {<<f>> : f \in files}

PathChars == {"/", ".", "a", "c", "A", " "}

\* Every path of 1..MaxPathLen characters, as a one-line listing with a handle.
CandidateTexts ==
    {p \o <<" ">> \o HandleMarker \o <<"h", ">">> :
        p \in UNION {[1..n -> PathChars] : n \in 1..MaxPathLen}}

CandidateFiles == {[readable |-> TRUE, text |-> t] : t \in CandidateTexts}

(***************************************************************************)
(* Component state after construction (lines 17-22).                       *)
(***************************************************************************)
Init ==
    /\ database = <<>>
    /\ currentBatch = <<>>
    /\ currentFile = NULL
    /\ isLoading = FALSE
    /\ isDragOver = FALSE
    /\ stats = [folders |-> 0, files |-> 0]
    /\ pending = {}
    /\ pc = "idle"
    /\ batch = <<>>
    /\ used = {}
    /\ limit = 0
    /\ lastCall = <<"none", 0>>

appState == <<database, currentBatch, currentFile, isLoading, isDragOver, stats>>
genLocals == <<batch, used, limit>>

(***************************************************************************)
(* handleFileUpload (lines 91-116): the part before `await file.text()`    *)
(* and the continuation that runs once the read has settled.               *)
(***************************************************************************)
\* Lines 92-96: up to the await.
uploadBegin(file) ==
    IF file = NULL
    THEN UNCHANGED <<isLoading, pending>>
    ELSE /\ Cardinality(pending) < MaxPending
         /\ file \notin pending
         /\ isLoading' = TRUE
         /\ pending' = pending \cup {file}

\* uploadParsed without line 102 (setCurrentBatch([])).
uploadParsedKeepsBatch(file) ==
    LET parsedFiles == parseNewStructure(file.text)
    IN /\ database' = parsedFiles
       /\ UNCHANGED currentBatch
       /\ currentFile' = NULL
       /\ stats' = [files |-> Len(parsedFiles),
                    folders |-> Cardinality({parsedFiles[i].folderPath :
                                                i \in 1..Len(parsedFiles)})]

\* Lines 97-109: the try block after a successful read.
uploadParsed(file) ==
    LET parsedFiles == parseNewStructure(file.text)
    IN /\ database' = parsedFiles
       /\ currentBatch' = <<>>
       /\ currentFile' = NULL
       /\ stats' = [files |-> Len(parsedFiles),
                    folders |-> Cardinality({parsedFiles[i].folderPath :
                                                i \in 1..Len(parsedFiles)})]

\* Lines 96-115 after the await: try / catch / finally.
uploadSettled ==
    /\ pc = "idle"
    /\ \E file \in pending :
        /\ pending' = pending \ {file}
        /\ IF file.readable
           THEN uploadParsed(file)
           ELSE UNCHANGED <<database, currentBatch, currentFile, stats>>
        /\ isLoading' = FALSE
    /\ lastCall' = <<"uploadSettled", 0>>
    /\ UNCHANGED <<isDragOver, pc, genLocals>>

\* Line 239: onChange={(e) => e.target.files && handleFileUpload(e.target.files[0])}
fileInputChange(files) ==
    /\ pc = "idle"
    /\ uploadBegin(IF Len(files) > 0 THEN files[1] ELSE NULL)
    /\ lastCall' = <<"handleFileUpload", 0>>
    /\ UNCHANGED <<database, currentBatch, currentFile, isDragOver, stats, pc, genLocals>>

(***************************************************************************)
(* Drag handlers (lines 119-136).                                          *)
(***************************************************************************)
handleDrop(files) ==
    /\ pc = "idle"
    /\ isDragOver' = FALSE
    /\ IF Len(files) > 0 THEN uploadBegin(files[1]) ELSE UNCHANGED <<isLoading, pending>>
    /\ lastCall' = <<"handleDrop", 0>>
    /\ UNCHANGED <<database, currentBatch, currentFile, stats, pc, genLocals>>

handleDragOver ==
    /\ pc = "idle"
    /\ isDragOver' = TRUE
    /\ lastCall' = <<"handleDragOver", 0>>
    /\ UNCHANGED <<database, currentBatch, currentFile, isLoading, stats, pending, pc, genLocals>>

handleDragLeave ==
    /\ pc = "idle"
    /\ isDragOver' = FALSE
    /\ lastCall' = <<"handleDragLeave", 0>>
    /\ UNCHANGED <<database, currentBatch, currentFile, isLoading, stats, pending, pc, genLocals>>

(***************************************************************************)
(* pickRandomFile (lines 138-147).                                         *)
(***************************************************************************)
\* batchWithPick without the `find` test of line 144.
batchWithPickAlways(randomFile) == <<randomFile>> \o currentBatch

\* Lines 144-146: prepend unless an entry of the batch has the id.
batchWithPick(randomFile) ==
    IF ~\E i \in 1..Len(currentBatch) : currentBatch[i].id = randomFile.id
    THEN <<randomFile>> \o currentBatch
    ELSE currentBatch

\* pickRandomFile without the guard of line 139: on an empty record set
\* database[NaN] is undefined, which is stored and prepended.
pickRandomFileUnguarded ==
    /\ pc = "idle"
    /\ IF Len(database) = 0
       THEN /\ currentFile' = [undefined |-> TRUE]
            /\ currentBatch' = <<[undefined |-> TRUE]>> \o currentBatch
       ELSE \E i \in 1..Len(database) :
              LET randomFile == database[i]
              IN /\ currentFile' = randomFile
                 /\ currentBatch' = batchWithPick(randomFile)
    /\ lastCall' = <<"pickRandomFile", 0>>
    /\ UNCHANGED <<database, isLoading, isDragOver, stats, pending, pc, genLocals>>

pickRandomFile ==
    /\ pc = "idle"
    /\ IF Len(database) = 0
       THEN UNCHANGED <<currentFile, currentBatch>>
       ELSE \E i \in 1..Len(database) :
              LET randomFile == database[i]
              IN /\ currentFile' = randomFile
                 /\ currentBatch' = batchWithPick(randomFile)
    /\ lastCall' = <<"pickRandomFile", 0>>
    /\ UNCHANGED <<database, isLoading, isDragOver, stats, pending, pc, genLocals>>

(***************************************************************************)
(* generateBatch (lines 149-166): entry, one iteration of the rejection    *)
(* loop per step, and the two setters after the loop.                      *)
(***************************************************************************)
\* batchLimit without Math.min.
batchLimitNoMin(count, length) == count

\* Line 155
batchLimit(count, length) == Min(count, length)

\* Lines 150-155
generateBatch(count) ==
    /\ pc = "idle"
    /\ IF Len(database) = 0
       THEN UNCHANGED <<pc, genLocals>>
       ELSE /\ pc' = "gen"
            /\ batch' = <<>>
            /\ used' = {}
            /\ limit' = batchLimit(count, Len(database))
    /\ lastCall' = <<"generateBatch", count>>
    /\ UNCHANGED <<appState, pending>>

\* drawInto without the `used` test of line 158.
drawIntoUnchecked(randomFile) ==
    /\ batch' = Append(batch, randomFile)
    /\ used' = used \cup {randomFile.id}

\* Lines 158-161: the body of the loop for the record drawn.
drawInto(randomFile) ==
    IF randomFile.id \notin used
    THEN /\ batch' = Append(batch, randomFile)
         /\ used' = used \cup {randomFile.id}
    ELSE UNCHANGED <<batch, used>>

\* Lines 156-162: one iteration, Math.random() landing on index i - 1.
generateBatchDraw(i) ==
    /\ pc = "gen"
    /\ Len(batch) < limit
    /\ i \in 1..Len(database)
    /\ drawInto(database[i])
    /\ UNCHANGED <<appState, pending, pc, limit, lastCall>>

\* generateBatchEnd adding to the batch and keeping a selection already made.
generateBatchEndAppends ==
    /\ pc = "gen"
    /\ ~(Len(batch) < limit)
    /\ currentBatch' = batch \o currentBatch
    /\ currentFile' = IF currentFile # NULL THEN currentFile
                      ELSE IF Len(batch) > 0 THEN batch[1] ELSE NULL
    /\ pc' = "idle"
    /\ batch' = <<>>
    /\ used' = {}
    /\ limit' = 0
    /\ UNCHANGED <<database, isLoading, isDragOver, stats, pending, lastCall>>

\* Lines 164-165
generateBatchEnd ==
    /\ pc = "gen"
    /\ ~(Len(batch) < limit)
    /\ currentBatch' = batch
    /\ currentFile' = IF Len(batch) > 0 THEN batch[1] ELSE NULL
    /\ pc' = "idle"
    /\ batch' = <<>>
    /\ used' = {}
    /\ limit' = 0
    /\ UNCHANGED <<database, isLoading, isDragOver, stats, pending, lastCall>>

(***************************************************************************)
(* clearBatch, resetApp (lines 200-210) and the batch entry's onClick      *)
(* (line 319).                                                             *)
(***************************************************************************)
\* clearBatch without line 202 (setCurrentFile(null)).
clearBatchKeepsSelection ==
    /\ pc = "idle"
    /\ currentBatch' = <<>>
    /\ lastCall' = <<"clearBatch", 0>>
    /\ UNCHANGED <<database, currentFile, isLoading, isDragOver, stats, pending, pc, genLocals>>

clearBatch ==
    /\ pc = "idle"
    /\ currentBatch' = <<>>
    /\ currentFile' = NULL
    /\ lastCall' = <<"clearBatch", 0>>
    /\ UNCHANGED <<database, isLoading, isDragOver, stats, pending, pc, genLocals>>

resetApp ==
    /\ pc = "idle"
    /\ database' = <<>>
    /\ currentBatch' = <<>>
    /\ currentFile' = NULL
    /\ stats' = [folders |-> 0, files |-> 0]
    /\ lastCall' = <<"resetApp", 0>>
    /\ UNCHANGED <<isLoading, isDragOver, pending, pc, genLocals>>

\* onClick={() => setCurrentFile(file)} of the i-th rendered batch entry
selectEntry(i) ==
    /\ pc = "idle"
    /\ i \in 1..Len(currentBatch)
    /\ currentFile' = currentBatch[i]
    /\ lastCall' = <<"selectEntry", 0>>
    /\ UNCHANGED <<database, currentBatch, isLoading, isDragOver, stats, pending, pc, genLocals>>

(***************************************************************************)
(* Specifications.                                                         *)
(***************************************************************************)
\* The data handlers, each callable at any time, with the sample files.
Next ==
    \/ \E files \in FileLists(SampleFiles) : fileInputChange(files)
    \/ \E files \in FileLists(SampleFiles) : handleDrop(files)
    \/ uploadSettled
    \/ pickRandomFile
    \/ \E count \in 0..MaxCount : generateBatch(count)
    \/ \E i \in 1..MaxRecords : generateBatchDraw(i)
    \/ generateBatchEnd
    \/ clearBatch
    \/ resetApp
    \/ \E i \in 1..MaxRecords : selectEntry(i)

Spec == Init /\ [][Next]_vars

\* The count the "New Batch" button passes (line 289).
BatchButtonCount == 10

\* Line 227: the upload area is rendered iff the record set is empty, and the
\* statistics, buttons and batch list are rendered otherwise.
uploadAreaShown == Len(database) = 0

\* Lines 286 and 289: disabled={isLoading}
pickButtonsEnabled == ~uploadAreaShown /\ ~isLoading

\* Lines 294 and 309: {currentBatch.length > 0 && ...}
batchShown == ~uploadAreaShown /\ Len(currentBatch) > 0

\* The component as rendered: a handler runs only from an element on screen.
UINext ==
    \/ uploadAreaShown /\ \E files \in FileLists(SampleFiles) : fileInputChange(files)
    \/ uploadAreaShown /\ \E files \in FileLists(SampleFiles) : handleDrop(files)
    \/ uploadAreaShown /\ handleDragOver
    \/ uploadAreaShown /\ handleDragLeave
    \/ uploadSettled
    \/ pickButtonsEnabled /\ pickRandomFile
    \/ pickButtonsEnabled /\ generateBatch(BatchButtonCount)
    \/ \E i \in 1..MaxRecords : generateBatchDraw(i)
    \/ generateBatchEnd
    \/ batchShown /\ clearBatch
    \/ ~uploadAreaShown /\ resetApp
    \/ batchShown /\ \E i \in 1..MaxRecords : selectEntry(i)

UISpec == Init /\ [][UINext]_vars

\* One upload at a time, then batch draws; every index the random draw can
\* land on is drawn again and again, and the code after the loop runs.
LoopNext ==
    \/ /\ uploadAreaShown
       /\ pending = {}
       /\ \E files \in FileLists(SampleFiles) : fileInputChange(files)
    \/ uploadSettled
    \/ \E count \in 0..MaxCount : generateBatch(count)
    \/ \E i \in 1..MaxRecords : generateBatchDraw(i)
    \/ generateBatchEnd

LoopSpec ==
    /\ Init
    /\ [][LoopNext]_vars
    /\ \A i \in 1..MaxRecords : WF_vars(generateBatchDraw(i))
    /\ WF_vars(generateBatchEnd)

\* The parser applied to every enumerated candidate line, one upload at a time.
ParseNext ==
    \/ /\ uploadAreaShown
       /\ pending = {}
       /\ \E f \in CandidateFiles : fileInputChange(<<f>>)
    \/ uploadSettled

ParseSpec == Init /\ [][ParseNext]_vars

(***************************************************************************)
(* Properties.                                                             *)
(***************************************************************************)
ids(records) == {records[i].id : i \in 1..Len(records)}

distinctIds(records) ==
    \A i, j \in 1..Len(records) : i # j => records[i].id # records[j].id

allFrom(records, source) ==
    \A i \in 1..Len(records) : \E j \in 1..Len(source) : source[j] = records[i]

hasDot(s) == \E i \in 1..Len(s) : s[i] = "."

\* The text after the final "." of s (s has one).
afterFinalDot(s) ==
    LET i == CHOOSE j \in 1..Len(s) : s[j] = "." /\ \A k \in (j + 1)..Len(s) : s[k] # "."
    IN SubSeq(s, i + 1, Len(s))

\* C1: in every state, every record of currentBatch is a record of database.
BatchSubsetOfDatabase == allFrom(currentBatch, database)

\* C1 witness: after picks, a batch of two records that is a proper part of the set.
BatchProperSubset ==
    /\ lastCall[1] = "pickRandomFile"
    /\ Len(currentBatch) = 2
    /\ Len(database) > 2

\* C2: the batch never holds two records with the same id, and after
\* pickRandomFile on a single-record set the batch has exactly one entry.
NoDuplicateInBatch ==
    /\ distinctIds(currentBatch)
    /\ (lastCall[1] = "pickRandomFile" /\ Len(database) = 1) => Len(currentBatch) = 1

\* C2 witness: pickRandomFile has run on a single-record set whose record was
\* already in the batch and selected.
PickedOnSingleRecordSet ==
    /\ lastCall[1] = "pickRandomFile"
    /\ Len(database) = 1
    /\ currentBatch = <<database[1]>>
    /\ currentFile = database[1]

\* C3: once generateBatch(count) has returned, the batch has min(count, |records|)
\* entries, all from the record set and pairwise distinct by id; with
\* count >= |records| its ids are those of the record set.
BatchDrawResult ==
    (lastCall[1] = "generateBatch" /\ pc = "idle") =>
        /\ Len(currentBatch) = Min(lastCall[2], Len(database))
        /\ allFrom(currentBatch, database)
        /\ distinctIds(currentBatch)
        /\ lastCall[2] >= Len(database) => ids(currentBatch) = ids(database)

\* C3 witness: generateBatch with count >= |records| has returned the whole
\* record set in another order than the parser's.
BatchIsPermutation ==
    /\ lastCall[1] = "generateBatch"
    /\ pc = "idle"
    /\ lastCall[2] >= Len(database)
    /\ Len(currentBatch) = Len(database)
    /\ Len(database) >= 2
    /\ currentBatch[1].id # 0

\* C4: under fair draws the loop of generateBatch always exits, with
\* min(count, |records|) records drawn.
LoopTerminates ==
    (pc = "gen") ~>
        (pc = "idle" /\ Len(currentBatch) = Min(lastCall[2], Len(database)))

\* C4 witness: a call with 2 <= count < |records| has left its loop.
LoopExited ==
    /\ lastCall[1] = "generateBatch"
    /\ pc = "idle"
    /\ lastCall[2] >= 2
    /\ lastCall[2] < Len(database)
    /\ Len(currentBatch) = lastCall[2]

\* C5: the step that ends generateBatch on a non-empty record set makes the
\* batch exactly the records drawn in this call and the selection their first,
\* or none when nothing was drawn.
GenerateBatchReplaces ==
    [][(pc = "gen" /\ pc' = "idle") =>
          /\ currentBatch' = batch
          /\ currentFile' = IF Len(batch) = 0 THEN NULL ELSE batch[1]]_vars

\* C5 witness: generateBatch(1) has returned on a set of several records, with
\* a record other than the first of the set drawn and selected.
BatchReplacedByDraw ==
    /\ lastCall = <<"generateBatch", 1>>
    /\ pc = "idle"
    /\ Len(database) >= 2
    /\ Len(currentBatch) = 1
    /\ currentFile = currentBatch[1]
    /\ currentFile.id # 0

\* C6: a call of pickRandomFile or generateBatch on an empty record set
\* returns at once and changes nothing; batch and selection stay empty.
NoOpOnEmptySet ==
    [][(Len(database) = 0 /\ lastCall'[1] \in {"pickRandomFile", "generateBatch"}) =>
          /\ UNCHANGED <<appState, pending, genLocals>>
          /\ pc' = "idle"
          /\ currentBatch' = <<>>
          /\ currentFile' = NULL]_vars

\* C6 witness: pickRandomFile has been called on an empty record set.
PickedOnEmptySet ==
    /\ lastCall[1] = "pickRandomFile"
    /\ Len(database) = 0

\* C7: right after resetApp the state is the state after construction.
ResetRestoresInitialState ==
    lastCall[1] = "resetApp" =>
        /\ database = <<>>
        /\ currentBatch = <<>>
        /\ currentFile = NULL
        /\ stats = [folders |-> 0, files |-> 0]
        /\ isLoading = FALSE
        /\ isDragOver = FALSE
        /\ pending = {}

\* C8: every parsed record's extension is the lowercased text after the final
\* "." of its fileName, and is empty (with type "file") when there is no ".".
ExtensionAfterFinalDot ==
    \A i \in 1..Len(database) :
        LET r == database[i]
        IN IF hasDot(r.fileName)
           THEN r.extension = toLowerCase(afterFinalDot(r.fileName))
           ELSE r.extension = <<>> /\ r.type = "file"

\* C9: for every parsed record, folderPath + "/" + fileName, with a folderPath
\* of "/" taken as empty, is the record's fullPath.
PathRoundTrip ==
    \A i \in 1..Len(database) :
        LET r == database[i]
            folder == IF r.folderPath = <<"/">> THEN <<>> ELSE r.folderPath
        IN folder \o <<"/">> \o r.fileName = r.fullPath

\* C10: currentFile is null exactly when the batch is empty, and otherwise is
\* a record of the batch.
SelectionInBatch ==
    /\ (currentFile = NULL) <=> (Len(currentBatch) = 0)
    /\ currentFile # NULL => \E i \in 1..Len(currentBatch) : currentBatch[i] = currentFile

\* C10 witness: an entry of the batch other than its first has been clicked.
EntrySelected ==
    /\ lastCall[1] = "selectEntry"
    /\ Len(currentBatch) >= 2
    /\ currentFile = currentBatch[2]

====
